---------------------------- MODULE Spec2Model ----------------------------
(***************************************************************************)
(* Model of src/99/99.c: main prints the lyrics of "99 Bottles of Beer".   *)
(*                                                                         *)
(* The program state is the loop counter n, the position of main (pc),     *)
(* the text received by standard output (out: the completed lines, cur:    *)
(* the characters of the line not yet terminated by a newline), the state  *)
(* of the output stream (stream, ferror) and the termination status.       *)
(* Text is kept as text: printf is modelled by interpreting the format     *)
(* string of the source, %d by decimal conversion and %s by copying the    *)
(* argument; standard output cuts the text it receives at the newlines.    *)
(***************************************************************************)
EXTENDS Integers, Sequences, FiniteSets, TLC

VARIABLES pc, n, out, cur, stream, ferror, status

vars == <<pc, n, out, cur, stream, ferror, status>>

---------------------------------------------------------------------------
(* Literals of the source *)

\* for (int n = 99; ...)
FirstCount == 99

\* the format of line 5
LineAFormat == "%d bottle%s of beer on the wall, %d bottle%s of beer.\n"

\* line 7 without the newline that makes the blank line
LineBFormat_OneNewline == "Take one down and pass it around, %d bottle%s of beer on the wall.\n"

\* the format of line 7
LineBFormat == "Take one down and pass it around, %d bottle%s of beer on the wall.\n\n"

\* line 9 printing the count 0 instead of "no more"
LineBNoMore_Zero == "Take one down and pass it around, 0 bottles of beer on the wall.\n\n"

\* the format of line 9
LineBNoMore == "Take one down and pass it around, no more bottles of beer on the wall.\n\n"

\* the argument of puts, line 11
NoMoreLine == "No more bottles of beer on the wall, no more bottles of beer."

\* the argument of puts, line 12
GoToStoreLine == "Go to the store and buy some more, 99 bottles of beer on the wall."

\* the suffix without the test for 1
Suffix_Always(k) == "s"

\* n==1?"":"s"
Suffix(k) == IF k = 1 THEN "" ELSE "s"

---------------------------------------------------------------------------
(* printf and puts *)

\* the i-th character of a text
Char(s, i) == SubSeq(s, i, i)

Digit(d) == Char("0123456789", d + 1)

\* the %d conversion of a non-negative int
RECURSIVE Decimal(_)
Decimal(k) == IF k < 10 THEN Digit(k) ELSE Decimal(k \div 10) \o Digit(k % 10)

\* the %d conversion
ConvD(k) == IF k < 0 THEN "-" \o Decimal(0 - k) ELSE Decimal(k)

\* the positions of the conversion specifications of fmt from position i on
Specs(fmt, i) == {p \in i..(Len(fmt) - 1) : Char(fmt, p) = "%" /\ Char(fmt, p + 1) \in {"d", "s"}}

\* its first element
Min(S) == CHOOSE p \in S : \A q \in S : p <= q

\* the text printf produces from the format fmt, read from position i on,
\* and the arguments still to be consumed: ordinary characters are copied,
\* %d converts an int to decimal, %s copies a string
RECURSIVE Format(_, _, _)
Format(fmt, i, args) ==
    IF Specs(fmt, i) = {} THEN SubSeq(fmt, i, Len(fmt))
    ELSE LET p == Min(Specs(fmt, i))
             conv == IF Char(fmt, p + 1) = "d" THEN ConvD(Head(args)) ELSE Head(args)
         IN  SubSeq(fmt, i, p - 1) \o conv \o Format(fmt, p + 2, Tail(args))

\* the text written by printf(fmt, args...)
printf(fmt, args) == Format(fmt, 1, args)

\* puts taken for fputs: no newline
puts_NoNewline(s) == s

\* the text written by puts(s): s and a newline
puts(s) == s \o "\n"

\* the positions of the newlines of a text
Newlines(t) == {i \in 1..Len(t) : Char(t, i) = "\n"}

\* standard output receiving text while line is its unterminated last line:
\* every newline completes a line; the result is the completed lines and
\* the new unterminated rest
Receive(lines, line, text) ==
    LET t == line \o text
        NL == Newlines(t)
        End(k) == CHOOSE p \in NL : Cardinality({q \in NL : q < p}) = k - 1
        Start(k) == IF k = 1 THEN 1 ELSE End(k - 1) + 1
        Last == IF NL = {} THEN 0 ELSE End(Cardinality(NL))
    IN  << lines \o [k \in 1..Cardinality(NL) |-> SubSeq(t, Start(k), End(k) - 1)],
           SubSeq(t, Last + 1, Len(t)) >>

\* one write of main followed by the statement at label next.  The result
\* of printf and puts is never looked at by main: a failed write sets the
\* error indicator of the stream and main goes on; a write to a pipe whose
\* reader is gone raises SIGPIPE, which ends the process (status 128 + 13
\* as the shell reports it).  Writes are taken unbuffered: the buffer of
\* stdio only delays the moment a failure shows, main ignores it all the
\* same and the flush at exit does not change the status.
Write(text, next) ==
    IF stream = "ok"
    THEN \E written \in {text} : \E received \in {Receive(out, cur, written)} :
         /\ out' = received[1]
         /\ cur' = received[2]
         /\ pc' = next
         /\ UNCHANGED <<ferror, status>>
    ELSE IF stream = "error"
         THEN /\ ferror' = TRUE
              /\ pc' = next
              /\ UNCHANGED <<out, cur, status>>
         ELSE /\ pc' = "killed"
              /\ status' = 128 + 13
              /\ UNCHANGED <<out, cur, ferror>>

---------------------------------------------------------------------------
(* main *)

Init ==
    /\ pc = "for"
    /\ n = FirstCount
    /\ out = <<>>
    /\ cur = ""
    /\ stream = "ok"
    /\ ferror = FALSE
    /\ status = -1

\* the loop test with n >= 0
LoopTest_Zero ==
    /\ pc = "for"
    /\ pc' = IF n >= 0 THEN "lineA" ELSE "puts1"
    /\ UNCHANGED <<n, out, cur, stream, ferror, status>>

\* n >= 1
LoopTest ==
    /\ pc = "for"
    /\ pc' = IF n >= 1 THEN "lineA" ELSE "puts1"
    /\ UNCHANGED <<n, out, cur, stream, ferror, status>>

\* line 5 with n-1 for the second count
PrintLineA_StaleCount ==
    /\ pc = "lineA"
    /\ Write(printf(LineAFormat, <<n, Suffix(n), n - 1, Suffix(n)>>), "lineB")
    /\ UNCHANGED <<n, stream>>

\* line 5
PrintLineA ==
    /\ pc = "lineA"
    /\ Write(printf(LineAFormat, <<n, Suffix(n), n, Suffix(n)>>), "lineB")
    /\ UNCHANGED <<n, stream>>

\* line 7 with the suffix of n instead of n-1
PrintLineBCount_SuffixOfN ==
    /\ pc = "lineB"
    /\ n - 1 > 0
    /\ Write(printf(LineBFormat, <<n - 1, Suffix(n)>>), "dec")
    /\ UNCHANGED <<n, stream>>

\* lines 6-7
PrintLineBCount ==
    /\ pc = "lineB"
    /\ n - 1 > 0
    /\ Write(printf(LineBFormat, <<n - 1, Suffix(n - 1)>>), "dec")
    /\ UNCHANGED <<n, stream>>

\* lines 8-9
PrintLineBNoMore ==
    /\ pc = "lineB"
    /\ ~(n - 1 > 0)
    /\ Write(printf(LineBNoMore, <<>>), "dec")
    /\ UNCHANGED <<n, stream>>

\* the loop counting down by two
Decrement_ByTwo ==
    /\ pc = "dec"
    /\ n' = n - 2
    /\ pc' = "for"
    /\ UNCHANGED <<out, cur, stream, ferror, status>>

\* --n
Decrement ==
    /\ pc = "dec"
    /\ n' = n - 1
    /\ pc' = "for"
    /\ UNCHANGED <<out, cur, stream, ferror, status>>

\* line 11
PutsNoMore ==
    /\ pc = "puts1"
    /\ Write(puts(NoMoreLine), "puts2")
    /\ UNCHANGED <<n, stream>>

\* line 12
PutsGoToStore ==
    /\ pc = "puts2"
    /\ Write(puts(GoToStoreLine), "return")
    /\ UNCHANGED <<n, stream>>

\* return 1
Return_One ==
    /\ pc = "return"
    /\ status' = 1
    /\ pc' = "done"
    /\ UNCHANGED <<n, out, cur, stream, ferror>>

\* return 0
Return ==
    /\ pc = "return"
    /\ status' = 0
    /\ pc' = "done"
    /\ UNCHANGED <<n, out, cur, stream, ferror>>

\* the positions of main at which the next statement writes
AtWrite == pc \in {"lineA", "lineB", "puts1", "puts2"}

\* the output stream becomes unwritable (a full device): writes fail
StreamError ==
    /\ AtWrite
    /\ stream = "ok"
    /\ stream' = "error"
    /\ UNCHANGED <<pc, n, out, cur, ferror, status>>

\* the reader of the pipe goes away
PipeClosed ==
    /\ AtWrite
    /\ stream = "ok"
    /\ stream' = "closed"
    /\ UNCHANGED <<pc, n, out, cur, ferror, status>>

Next ==
    \/ LoopTest
    \/ PrintLineA
    \/ PrintLineBCount
    \/ PrintLineBNoMore
    \/ Decrement
    \/ PutsNoMore
    \/ PutsGoToStore
    \/ Return

\* normal operation: every write succeeds
Spec == Init /\ [][Next]_vars

\* normal operation, main keeps running until it returns
FairSpec == Spec /\ WF_vars(Next)

NextFault ==
    \/ Next
    \/ StreamError
    \/ PipeClosed

\* the output stream may become unwritable at any write
SpecFault == Init /\ [][NextFault]_vars

TypeOK ==
    /\ pc \in {"for", "lineA", "lineB", "dec", "puts1", "puts2", "return", "done", "killed"}
    /\ n \in 0..FirstCount
    /\ stream \in {"ok", "error", "closed"}
    /\ ferror \in BOOLEAN
    /\ status \in {-1, 0, 128 + 13}

---------------------------------------------------------------------------
(* Reading the output back *)

IsDigit(c) == c \in {"0", "1", "2", "3", "4", "5", "6", "7", "8", "9"}

DigitValue(c) == CHOOSE d \in 0..9 : ToString(d) = c

\* the number a text of decimal digits denotes
RECURSIVE Atoi(_)
Atoi(s) ==
    IF Len(s) = 0 THEN 0
    ELSE 10 * Atoi(SubSeq(s, 1, Len(s) - 1)) + DigitValue(Char(s, Len(s)))

\* the positions at which a number starts in a line
NumberStarts(line) ==
    {p \in 1..Len(line) : IsDigit(Char(line, p)) /\ (p = 1 \/ ~IsDigit(Char(line, p - 1)))}

\* the position of the last digit of the number that contains position p
NumberEnd(line, p) ==
    CHOOSE q \in p..Len(line) :
        /\ \A r \in p..q : IsDigit(Char(line, r))
        /\ (q = Len(line) \/ ~IsDigit(Char(line, q + 1)))

\* the number that starts at position p
NumberAt(line, p) == Atoi(SubSeq(line, p, NumberEnd(line, p)))

\* how many times the number k is written in a line
CountOf(line, k) == Cardinality({p \in NumberStarts(line) : NumberAt(line, p) = k})

\* the positions at which pat occurs in a line (case matters)
Occurrences(pat, line) ==
    {p \in 1..(Len(line) - Len(pat) + 1) : SubSeq(line, p, p + Len(pat) - 1) = pat}

StartsWith(line, pat) == Len(line) >= Len(pat) /\ SubSeq(line, 1, Len(pat)) = pat

\* a Line A starts with its count, a Line B with "Take one down"
IsLineA(line) == Len(line) > 0 /\ IsDigit(Char(line, 1))

IsLineB(line) == StartsWith(line, "Take one down and pass it around, ")

\* the lines of the output that open a verse, and the count of the verse
LineAIndexes == {i \in 1..Len(out) : IsLineA(out[i])}

VerseCount(i) == NumberAt(out[i], 1)

\* the occurrences <<line, position>> of pat in the whole output
OccurrencesInOutput(pat) ==
    UNION {{<<i, p>> : p \in Occurrences(pat, out[i])} : i \in 1..Len(out)}

\* the occurrences of the noun in a line, and those in the singular
Nouns(line) == Occurrences("bottle", line)

IsSingular(line, p) == Char(line, p + 6) # "s"

SingularNouns(line) == {p \in Nouns(line) : IsSingular(line, p)}

\* the count that goes with the noun at position p: the number written
\* before it, 0 for "no more", -1 when there is none
CountBefore(line, p) ==
    IF p >= 3 /\ IsDigit(Char(line, p - 2)) /\ Char(line, p - 1) = " "
    THEN NumberAt(line, CHOOSE q \in NumberStarts(line) : q <= p - 2 /\ NumberEnd(line, q) = p - 2)
    ELSE IF p >= 9 /\ SubSeq(line, p - 8, p - 1) \in {"no more ", "No more "}
         THEN 0
         ELSE -1

\* the text from position from up to " of beer": a count and its noun
Phrase(line, from) ==
    SubSeq(line, from, Min({p \in Occurrences(" of beer", line) : p >= from}) - 1)

\* what a Line A opens with, what a Line B announces after the comma
Opening(line) == Phrase(line, 1)

Announced(line) == Phrase(line, Min(Occurrences(", ", line)) + 2)

\* the lines of a verse as the lyrics have them
LyricsLineA(k) ==
    ToString(k) \o (IF k = 1 THEN " bottle" ELSE " bottles") \o " of beer on the wall, "
                \o ToString(k) \o (IF k = 1 THEN " bottle" ELSE " bottles") \o " of beer."

LyricsLineB(k) ==
    IF k >= 2
    THEN "Take one down and pass it around, " \o ToString(k - 1)
             \o (IF k - 1 = 1 THEN " bottle" ELSE " bottles") \o " of beer on the wall."
    ELSE "Take one down and pass it around, no more bottles of beer on the wall."

LoopDone == pc \in {"puts1", "puts2", "return", "done"}

---------------------------------------------------------------------------
(* Properties *)

\* C1: when the body of the loop has run for n (1 <= n <= 99), the output
\* ends with exactly the three lines of the verse for n: Line A with n
\* twice and "bottle" without s iff n = 1, Line B with n-1 (or "no more
\* bottles" for n = 1), and one blank line; each verse is three lines, so
\* the output then has 3 * (99 - n + 1) complete lines.
VerseIsThreeLines ==
    pc = "dec" =>
        /\ n \in 1..99
        /\ cur = ""
        /\ Len(out) = 3 * (99 - n + 1)
        /\ SubSeq(out, Len(out) - 2, Len(out)) = <<LyricsLineA(n), LyricsLineB(n), "">>

LastVerseEmitted ==
    /\ pc = "dec"
    /\ n = 1
    /\ Len(out) = 297
    /\ out[296] = "Take one down and pass it around, no more bottles of beer on the wall."

\* C2: the verses of the output are those for 99, 98, ..., in this order:
\* the first verse is the one for 99, the verse for k >= 2 is immediately
\* (three lines later) followed by the verse for k-1, every verse but the
\* first immediately follows the verse for one more, nothing follows the
\* verse for 1, and once the loop is over there are exactly 99 verses, one
\* for each of 1..99.
VersesDescend ==
    /\ \A i \in LineAIndexes :
        /\ VerseCount(i) \in 1..99
        /\ IF i = 1 THEN VerseCount(i) = 99
           ELSE i - 3 \in LineAIndexes /\ VerseCount(i - 3) = VerseCount(i) + 1
        /\ i + 1 \notin LineAIndexes /\ i + 2 \notin LineAIndexes
        /\ (i + 3 <= Len(out) /\ VerseCount(i) >= 2) => i + 3 \in LineAIndexes
        /\ VerseCount(i) = 1 => \A j \in LineAIndexes : j <= i
    /\ LoopDone =>
        /\ Cardinality(LineAIndexes) = 99
        /\ {VerseCount(i) : i \in LineAIndexes} = 1..99

AllVersesEmitted ==
    /\ pc = "done"
    /\ Cardinality(LineAIndexes) = 99
    /\ VerseCount(1) = 99
    /\ VerseCount(295) = 1

\* C3: the two closing lines are written once each, only after the verse
\* for 1 (the first right after its blank line, the second right after the
\* first), and when main is done they are the last two lines of the
\* output, both terminated by a newline, with nothing after them.
ClosingLinesLast ==
    /\ \A i \in 1..Len(out) :
        /\ out[i] = NoMoreLine =>
              /\ i >= 4
              /\ SubSeq(out, i - 3, i - 1) = <<LyricsLineA(1), LyricsLineB(1), "">>
        /\ out[i] = GoToStoreLine => (i >= 2 /\ out[i - 1] = NoMoreLine)
    /\ Cardinality({i \in 1..Len(out) : out[i] = NoMoreLine}) <= 1
    /\ Cardinality({i \in 1..Len(out) : out[i] = GoToStoreLine}) <= 1
    /\ pc \in {"return", "done"} =>
        /\ Len(out) >= 2
        /\ out[Len(out) - 1] = "No more bottles of beer on the wall, no more bottles of beer."
        /\ out[Len(out)] = "Go to the store and buy some more, 99 bottles of beer on the wall."
        /\ cur = ""

ClosingLinesEmitted ==
    /\ pc = "done"
    /\ Len(out) = 299
    /\ out[298] = NoMoreLine
    /\ out[299] = GoToStoreLine

\* C4: every noun of the output goes with a count (a number, or "no more"
\* for 0), and it is "bottle" without s iff that count is 1.
Pluralization ==
    \A i \in 1..Len(out) : \A p \in Nouns(out[i]) :
        /\ CountBefore(out[i], p) >= 0
        /\ IsSingular(out[i], p) <=> (CountBefore(out[i], p) = 1)

SingularAndPluralEmitted ==
    /\ pc = "done"
    /\ \E i \in 1..Len(out) : \E p \in Nouns(out[i]) : CountBefore(out[i], p) = 1
    /\ \E i \in 1..Len(out) : \E p \in Nouns(out[i]) : CountBefore(out[i], p) = 0
    /\ \E i \in 1..Len(out) : \E p \in Nouns(out[i]) : CountBefore(out[i], p) = 99

\* C5: "no more bottles" (in lower case) never occurs more than twice in
\* the output, only in Line B of the verse for 1 and in the closing line
\* "No more bottles of beer on the wall, no more bottles of beer."; when
\* main is done it occurs exactly twice, once in each.
NoMoreBottlesTwice ==
    /\ \A o \in OccurrencesInOutput("no more bottles") :
        \/ out[o[1]] = NoMoreLine
        \/ /\ IsLineB(out[o[1]])
           /\ o[1] >= 2
           /\ IsLineA(out[o[1] - 1])
           /\ VerseCount(o[1] - 1) = 1
    /\ \A i \in 1..Len(out) : Cardinality(Occurrences("no more bottles", out[i])) <= 1
    /\ Cardinality(OccurrencesInOutput("no more bottles")) <= 2
    /\ pc = "done" =>
        /\ Cardinality(OccurrencesInOutput("no more bottles")) = 2
        /\ \E o \in OccurrencesInOutput("no more bottles") : out[o[1]] = NoMoreLine
        /\ \E o \in OccurrencesInOutput("no more bottles") : IsLineB(out[o[1]])

NoMoreBottlesEmitted ==
    /\ pc = "done"
    /\ OccurrencesInOutput("no more bottles") = {<<296, 35>>, <<298, 38>>}

\* C6 as stated: the verse for n (2 <= n <= 99) has the number n twice in
\* Line A and the number n-1 twice in Line B.
CountTwiceInBothLines ==
    (pc = "dec" /\ n \in 2..99) =>
        /\ CountOf(out[Len(out) - 2], n) = 2
        /\ CountOf(out[Len(out) - 1], n - 1) = 2

\* C6 amended: the verse for n (2 <= n <= 99) has the number n exactly
\* twice in Line A and the number n-1 exactly once in Line B, and no other
\* number.
CountTwiceThenOnce ==
    (pc = "dec" /\ n \in 2..99) =>
        /\ CountOf(out[Len(out) - 2], n) = 2
        /\ Cardinality(NumberStarts(out[Len(out) - 2])) = 2
        /\ CountOf(out[Len(out) - 1], n - 1) = 1
        /\ Cardinality(NumberStarts(out[Len(out) - 1])) = 1

CountedVerseEmitted ==
    /\ pc = "dec"
    /\ n = 10
    /\ CountOf(out[Len(out) - 2], 10) = 2
    /\ CountOf(out[Len(out) - 1], 9) = 1

\* C7: main does not end with exit status 0 once one of its writes has
\* failed.
FailedWriteIsFatal ==
    ferror => ~(pc = "done" /\ status = 0)

\* C8: when every write succeeds main terminates with exit code 0, it ends
\* only after the 99 verses and the two closing lines are in the output,
\* and no other exit code is produced.
NormalTermination ==
    /\ <>(pc = "done" /\ status = 0)
    /\ [](pc = "done" =>
            /\ status = 0
            /\ Cardinality(LineAIndexes) = 99
            /\ Len(out) = 3 * 99 + 2
            /\ out[Len(out) - 1] = NoMoreLine
            /\ out[Len(out)] = GoToStoreLine)
    /\ [](status \in {-1, 0})
    /\ [](status = 0 => pc = "done")

Terminated ==
    /\ pc = "done"
    /\ status = 0
    /\ Len(out) = 299
    /\ ~ferror

\* C9: n starts at 99, changes only in the decrement that ends an
\* iteration and then by exactly -1, stays within 0..99 and is 0 once the
\* loop is over; the body runs only with 1 <= n <= 99; the loop test lets a
\* verse follow only with n >= 1 (so the decrement before it started from
\* n > 1) and leaves the loop only with n = 0; no verse is written for 0.
CounterCountsDown ==
    /\ n = 99
    /\ [][/\ (n' # n => (pc = "dec" /\ n' = n - 1))
          /\ (pc = "dec" => n' = n - 1)
          /\ ((pc = "for" /\ pc' = "lineA") => n >= 1)
          /\ ((pc = "for" /\ pc' = "puts1") => n = 0)]_vars
    /\ [](n \in 0..99)
    /\ [](pc \in {"lineA", "lineB", "dec"} => n \in 1..99)
    /\ [](LoopDone => n = 0)
    /\ [](\A i \in LineAIndexes : VerseCount(i) # 0)
    /\ [](Cardinality(LineAIndexes) = 99 - n + (IF pc \in {"lineB", "dec"} THEN 1 ELSE 0))

CounterAtZero ==
    /\ pc = "puts1"
    /\ n = 0
    /\ Cardinality(LineAIndexes) = 99

\* C10: what Line B of a verse announces (count and noun) is what the line
\* after the blank line opens with: the next Line A, or, for "no more
\* bottles", the closing line that starts with "No more bottles"; and the
\* noun is in the singular only in Line B of the verse for 2 (once) and in
\* Line A of the verse for 1 (twice), three times in the finished output.
VersesChain ==
    /\ \A i \in 1..Len(out) : (IsLineB(out[i]) /\ i + 2 <= Len(out)) =>
        /\ out[i + 1] = ""
        /\ IF Announced(out[i]) = "no more bottles"
           THEN StartsWith(out[i + 2], "No more bottles") /\ out[i + 2] = NoMoreLine
           ELSE IsLineA(out[i + 2]) /\ Opening(out[i + 2]) = Announced(out[i])
    /\ \A i \in 1..Len(out) :
        Cardinality(SingularNouns(out[i])) =
            IF IsLineA(out[i]) /\ VerseCount(i) = 1 THEN 2
            ELSE IF IsLineB(out[i]) /\ i >= 2 /\ IsLineA(out[i - 1]) /\ VerseCount(i - 1) = 2
                 THEN 1
                 ELSE 0
    /\ pc = "done" =>
        Cardinality(UNION {{<<i, p>> : p \in SingularNouns(out[i])} : i \in 1..Len(out)}) = 3

ChainComplete ==
    /\ pc = "done"
    /\ Announced(out[293]) = "1 bottle"
    /\ Opening(out[295]) = "1 bottle"
    /\ Announced(out[296]) = "no more bottles"
    /\ StartsWith(out[298], "No more bottles")

=============================================================================
